---- MODULE Spec2Model ----
(***************************************************************************)
(* The log-event streaming bridge of OpenManus: the process-wide callback  *)
(* registry of app/logger.py and the per-request stream driver             *)
(* (process.event_stream) of main.py, run on one asyncio event loop.       *)
(*                                                                         *)
(* The event loop is modelled by its FIFO list of ready handles            *)
(* (loop.call_soon): asyncio.create_task appends a handle, Step* actions   *)
(* pop the head and run that task up to its next suspension.  Timers,      *)
(* socket events and client disconnects are external events that append a  *)
(* wake-up handle whenever they occur.  asyncio.wait_for and Queue.get are  *)
(* taken as in CPython 3.12 (no intermediate task around the coroutine).   *)
(*                                                                         *)
(* Spec     the server with NumConns connections, histories recorded        *)
(* LiveSpec the same with agent runs that log without limit, under the     *)
(*          event loop's fairness                                          *)
(* RegSpec  the registry's three functions called in any order             *)
(* PassSpec a dispatch pass run slot by slot among registry calls          *)
(***************************************************************************)
EXTENDS Integers, Sequences, FiniteSets, TLC

\* ------------------------------------------------------------- bounds
\* Connections handled by the server in one behaviour.
NumConns == 2
\* Log lines one agent run emits at most.
MaxEmit == 1
\* Slots the registry grows to in the registry-only specification.
MaxSlots == 3
\* Messages on their way to one registered observer's queue (scheduled or
\* queued) at which agents stop logging, in the specification where they
\* log without limit.
MaxBacklog == 1

Conns == 1..NumConns

\* ------------------------------------------------------------- values
\* Python's None in a registry slot.
None == [fn |-> "None", conn |-> 0]
\* The closure log_callback of connection c (it captures c's queue).
Callback(c) == [fn |-> "log_callback", conn |-> c]

\* A log record's message; src is the connection whose driver or agent
\* made the log call (history only: the code sees the text).
Msg(c, text) == [src |-> c, text |-> text]
NoMsg == [src |-> 0, text |-> <<>>]

TextEmpty == <<"Empty prompt provided.">>
TextProcessing == <<"Processing your request...">>
TextCompleted == <<"Request processing completed.">>
\* error_msg = f"An error occurred: {str(e)}"
ErrorMsg(e) == <<"An error occurred: ", e>>
\* f"data: {message}\n\n"
Frame(text) == <<"data: ">> \o text \o <<"\n\n">>
\* The n-th line an agent run logs.
AgentLine(n) == <<"agent step ", ToString(n)>>

\* Request bodies: the empty prompt, a whitespace-only one, a real one.
Prompts == {<<>>, <<" ", " ">>, <<"h", "i">>}
IsSpace(ch) == ch \in {" ", "\t", "\n"}
RECURSIVE LStrip(_)
LStrip(s) == IF s # <<>> /\ IsSpace(Head(s)) THEN LStrip(Tail(s)) ELSE s
RECURSIVE RStrip(_)
RStrip(s) ==
  IF s # <<>> /\ IsSpace(s[Len(s)]) THEN RStrip(SubSeq(s, 1, Len(s) - 1)) ELSE s
\* Mutant: a test of the prompt that does not strip it.
StripNothing(s) == s
\* str.strip()
Strip(s) == RStrip(LStrip(s))

\* Handles of the loop's ready list.
Drv(c) == [k |-> "drv", c |-> c, m |-> NoMsg]
Agent(c) == [k |-> "agent", c |-> c, m |-> NoMsg]
PutTask(c, m) == [k |-> "put", c |-> c, m |-> m]

VARIABLES
  _log_callbacks,  \* app/logger.py: the registry's slot list
  lastOp,          \* history: the last registry call of the registry-only spec
  dispatch,        \* a pass of _intercept_message run slot by slot: its list
                   \* iterator and, as history, the slots it has called
  ready,           \* the event loop's FIFO of ready handles
  pc,              \* per connection: where event_stream is suspended
  wait,            \* per connection: what the suspended generator waits for
  prompt,          \* per connection: request.prompt
  callback_id,     \* per connection: the handle add_log_callback returned
  queue,           \* per connection: the asyncio.Queue's items
  agent_task,      \* per connection: state of the task running agent.run
  emitted,         \* per connection: lines the agent run has logged
  frames,          \* per connection: frames yielded to the client
  delivered,       \* history: messages dequeued and yielded, per connection
  log,             \* history: every message emitted, in emission order
  events,          \* history: per connection, its "frame", "unregister" and
                   \* "cleanup" events in the order the code performed them
  unregAt,         \* history: Len(log) when the observer was removed, or -1
  ended            \* history: how the stream ended

vars == <<_log_callbacks, lastOp, dispatch, ready, pc, wait, prompt, callback_id, queue,
          agent_task, emitted, frames, delivered, log, events, unregAt, ended>>

\* ------------------------------------------------------------- registry
\* list.append then len - 1
add_log_callback(cbs, callback) ==
  LET l == Append(cbs, callback) IN [list |-> l, id |-> Len(l) - 1]

\* Mutant: a removal that deletes the slot from the list (del lst[i]).
ListDelItem(l, i, v) ==
  IF -Len(l) <= i /\ i < Len(l)
    THEN LET k == (IF i >= 0 THEN i ELSE Len(l) + i) + 1
         IN  [list |-> SubSeq(l, 1, k - 1) \o SubSeq(l, k + 1, Len(l)),
              raised |-> FALSE]
    ELSE [list |-> l, raised |-> TRUE]

\* Python's lst[i] = v: negative indices count from the end, anything
\* outside -len..len-1 raises IndexError.
ListSetItem(l, i, v) ==
  IF -Len(l) <= i /\ i < Len(l)
    THEN [list |-> [l EXCEPT ![(IF i >= 0 THEN i ELSE Len(l) + i) + 1] = v],
          raised |-> FALSE]
    ELSE [list |-> l, raised |-> TRUE]

\* Mutant: the guard with a strict lower bound.
InRangeStrict(id, cbs) == 0 < id /\ id < Len(cbs)

\* Mutant: the guard without its lower bound.
InRangeNoLower(id, cbs) == id < Len(cbs)

\* if 0 <= callback_id < len(_log_callbacks)
InRange(id, cbs) == 0 <= id /\ id < Len(cbs)

remove_log_callback(cbs, id) ==
  IF InRange(id, cbs) THEN ListSetItem(cbs, id, None)
                      ELSE [list |-> cbs, raised |-> FALSE]

\* Mutant: the loop without its `if callback:` test.
TruthyAny(callback) == TRUE

\* `if callback:` a function object is truthy, None is not.
Truthy(callback) == callback # None

\* Whether calling the slot's value raises: None is not callable; log_callback
\* calls asyncio.create_task, which needs a running loop in the calling thread.
CallRaises(callback, onLoop) == callback = None \/ ~onLoop

\* The for loop of _intercept_message from slot i on: the 0-based slots whose
\* callback was called, in call order, and whether a call raised (which ends
\* the loop: there is no try around the call).
RECURSIVE InterceptFrom(_, _, _)
InterceptFrom(cbs, i, onLoop) ==
  IF i > Len(cbs) THEN [invoked |-> <<>>, raised |-> FALSE]
  ELSE IF Truthy(cbs[i])
    THEN IF CallRaises(cbs[i], onLoop)
           THEN [invoked |-> <<i - 1>>, raised |-> TRUE]
           ELSE LET r == InterceptFrom(cbs, i + 1, onLoop)
                IN  [invoked |-> <<i - 1>> \o r.invoked, raised |-> r.raised]
    ELSE InterceptFrom(cbs, i + 1, onLoop)

_intercept_message(cbs, onLoop) == InterceptFrom(cbs, 1, onLoop)

\* ------------------------------------------------------------- event loop
\* asyncio.create_task(queue.put(message)): the put runs when the loop
\* reaches the new task's handle.
log_callback(rdy, c, message) == Append(rdy, PutTask(c, message))

RECURSIVE CallAll(_, _, _, _)
CallAll(rdy, cbs, invoked, m) ==
  IF invoked = <<>> THEN rdy
  ELSE CallAll(log_callback(rdy, cbs[Head(invoked) + 1].conn, m), cbs,
               Tail(invoked), m)

\* Mutant: a dispatch that calls only the observer of the connection the
\* message comes from.
LoggerCallFiltered(s, m) ==
  [s EXCEPT !.rdy = CallAll(s.rdy, s.cbs,
                            SelectSeq(_intercept_message(s.cbs, TRUE).invoked,
                                      LAMBDA k : s.cbs[k + 1].conn = m.src), m),
            !.log = Append(s.log, m)]

\* logger.info / warning / error made by a task of the loop: the patched
\* logger runs _intercept_message on the record.  s is the running step's
\* view of the state.
LoggerCall(s, m) ==
  [s EXCEPT !.rdy = CallAll(s.rdy, s.cbs, _intercept_message(s.cbs, TRUE).invoked, m),
            !.log = Append(s.log, m)]

\* asyncio.Queue: put_nowait appends, get_nowait pops the left end.
QueuePut(q, m) == Append(q, m)
\* Mutant: a queue that pops the right end.
QueueGetRight(q) == [item |-> q[Len(q)], rest |-> SubSeq(q, 1, Len(q) - 1)]
QueueGet(q) == [item |-> Head(q), rest |-> Tail(q)]

TaskDone(a) == a \in {"done", "raised"}

\* ------------------------------------------------------------- event_stream
\* `yield frame`: the generator is suspended until the consumer asks for the
\* next frame.
DoYield(s, text, at) ==
  [s EXCEPT !.frames = Append(@, Frame(text)), !.events = Append(@, "frame"),
            !.pc = at, !.wait = "send"]

\* Mutant: a finally block that only removes the callback.
FinallyNoCleanup(s, how) ==
  [s EXCEPT !.cbs = remove_log_callback(s.cbs, s.cid).list,
            !.unreg = Len(s.log),
            !.events = @ \o <<"unregister">>,
            !.pc = "closed", !.wait = "none", !.ended = how]

\* Mutant: a finally block that cleans up before it removes the callback.
FinallySwapped(s, how) ==
  [s EXCEPT !.cbs = remove_log_callback(s.cbs, s.cid).list,
            !.unreg = Len(s.log),
            !.events = @ \o <<"cleanup", "unregister">>,
            !.pc = "closed", !.wait = "none", !.ended = how]

\* The finally block: remove_log_callback(callback_id); await agent.cleanup().
Finally(s, how) ==
  [s EXCEPT !.cbs = remove_log_callback(s.cbs, s.cid).list,
            !.unreg = Len(s.log),
            !.events = @ \o <<"unregister", "cleanup">>,
            !.pc = "closed", !.wait = "none", !.ended = how]

\* except Exception as e: log the error text and yield it.
ExceptHandler(s, c, e) ==
  DoYield(LoggerCall(s, Msg(c, ErrorMsg(e))), ErrorMsg(e), "y80")

\* message = await asyncio.wait_for(queue.get(), timeout=0.1); yield.
\* With an item in the queue get() returns at once; otherwise the generator
\* is suspended on the queue's getter future and the 0.1 s timer.
Poll(s) ==
  IF s.q # <<>>
    THEN LET g == QueueGet(s.q)
         IN  DoYield([s EXCEPT !.q = g.rest, !.deliv = Append(@, g.item)],
                     g.item.text, "y63")
    ELSE [s EXCEPT !.pc = "poll", !.wait = "getter"]

\* Mutant: the final message is logged but not yielded.
AfterLoopNoYield(s, c) ==
  [LoggerCall(s, Msg(c, TextCompleted)) EXCEPT !.pc = "y75", !.wait = "send"]

\* Lines 69-75: wait for the task if it is not done, then the final message.
AfterLoop(s, c) ==
  IF ~TaskDone(s.agent)
    THEN [s EXCEPT !.pc = "await71", !.wait = "task"]
    ELSE DoYield(LoggerCall(s, Msg(c, TextCompleted)), TextCompleted, "y75")

\* while not agent_task.done() or not queue.empty():
WhileLoop(s, c) ==
  IF ~TaskDone(s.agent) \/ s.q # <<>> THEN Poll(s) ELSE AfterLoop(s, c)

\* Mutant: a timeout that always leaves the loop.
OnTimeoutAlwaysBreak(s, c) == AfterLoop(s, c)

\* except asyncio.TimeoutError: if agent_task.done() and queue.empty(): break
OnTimeout(s, c) ==
  IF TaskDone(s.agent) /\ s.q = <<>> THEN AfterLoop(s, c) ELSE WhileLoop(s, c)

\* Lines 36-59, the generator's first run.  ctorOk: Manus() returned;
\* runOk: the call agent.run(prompt) returned a coroutine.
Start(s, c, ctorOk, runOk) ==
  LET reg == add_log_callback(s.cbs, Callback(c))
      s1  == [s EXCEPT !.q = <<>>, !.cbs = reg.list, !.cid = reg.id]
  IN  IF ~ctorOk
        THEN [s1 EXCEPT !.pc = "closed", !.wait = "none", !.ended = "construct"]
      ELSE IF Strip(prompt[c]) = <<>>
        THEN DoYield(LoggerCall(s1, Msg(c, TextEmpty)), TextEmpty, "y49")
      ELSE LET s2 == LoggerCall(s1, Msg(c, TextProcessing))
           IN  IF ~runOk
                 THEN ExceptHandler(s2, c, "agent.run failed")
                 ELSE WhileLoop([s2 EXCEPT !.rdy = Append(@, Agent(c)),
                                           !.agent = "ready"], c)

\* Mutant: a generator whose handler also catches the exception thrown in
\* when the client has gone (`except BaseException`).
ResumeCatchesExit(s, c) ==
  IF s.wait = "exit"
    THEN IF s.pc = "start"
           THEN [s EXCEPT !.pc = "closed", !.wait = "none", !.ended = "unstarted"]
           ELSE ExceptHandler(s, c, "cancelled")
  ELSE CASE s.pc = "y49" -> Finally(s, "empty")
         [] s.pc = "y63" -> WhileLoop(s, c)
         [] s.pc = "y75" -> Finally(s, "completed")
         [] s.pc = "y80" -> Finally(s, "error")
         [] s.pc = "poll" -> IF s.wait = "timeout" THEN OnTimeout(s, c) ELSE Poll(s)
         [] s.pc = "await71" ->
              IF s.agent = "raised" THEN ExceptHandler(s, c, "agent.run raised")
                                    ELSE AfterLoop(s, c)

\* The generator resumed where it was suspended.  wait = "exit": GeneratorExit
\* (aclose at a yield) or CancelledError (at the poll) is thrown in; neither
\* is an Exception, so only the finally block runs.
Resume(s, c) ==
  IF s.wait = "exit"
    THEN IF s.pc = "start"
           THEN [s EXCEPT !.pc = "closed", !.wait = "none", !.ended = "unstarted"]
           ELSE Finally(s, "disconnect")
  ELSE CASE s.pc = "y49" -> Finally(s, "empty")
         [] s.pc = "y63" -> WhileLoop(s, c)
         [] s.pc = "y75" -> Finally(s, "completed")
         [] s.pc = "y80" -> Finally(s, "error")
         [] s.pc = "poll" -> IF s.wait = "timeout" THEN OnTimeout(s, c) ELSE Poll(s)
         [] s.pc = "await71" ->
              IF s.agent = "raised" THEN ExceptHandler(s, c, "agent.run raised")
                                    ELSE AfterLoop(s, c)

Yields == {"y49", "y63", "y75", "y80"}

\* ------------------------------------------------------------- actions
NoOp == [op |-> "none", arg |-> 0, before |-> <<>>, invoked |-> <<>>,
         raised |-> FALSE, onLoop |-> TRUE]

\* No pass of _intercept_message has been started.
NoPass == [i |-> -1, stop |-> TRUE, start |-> <<>>, end |-> <<>>,
           invoked |-> <<>>, raised |-> FALSE]

Init ==
  /\ _log_callbacks = <<>>
  /\ lastOp = NoOp
  /\ dispatch = NoPass
  /\ ready = <<>>
  /\ pc = [c \in Conns |-> "idle"]
  /\ wait = [c \in Conns |-> "none"]
  /\ prompt = [c \in Conns |-> <<>>]
  /\ callback_id = [c \in Conns |-> -1]
  /\ queue = [c \in Conns |-> <<>>]
  /\ agent_task = [c \in Conns |-> "none"]
  /\ emitted = [c \in Conns |-> 0]
  /\ frames = [c \in Conns |-> <<>>]
  /\ delivered = [c \in Conns |-> <<>>]
  /\ log = <<>>
  /\ events = [c \in Conns |-> <<>>]
  /\ unregAt = [c \in Conns |-> -1]
  /\ ended = [c \in Conns |-> "no"]

\* POST /process/ with body {"prompt": p}: StreamingResponse starts to
\* iterate event_stream() (connections are numbered in arrival order).
Request(c) ==
  /\ pc[c] = "idle"
  /\ \A d \in Conns : d < c => pc[d] # "idle"
  /\ \E p \in Prompts : prompt' = [prompt EXCEPT ![c] = p]
  /\ pc' = [pc EXCEPT ![c] = "start"]
  /\ wait' = [wait EXCEPT ![c] = "send_ok"]
  /\ ready' = Append(ready, Drv(c))
  /\ UNCHANGED <<_log_callbacks, lastOp, dispatch, callback_id, queue, agent_task, emitted,
                 frames, delivered, log, events, unregAt, ended>>

\* The running generator's view of the state: the globals and its own locals.
View(c) ==
  [rdy |-> Tail(ready), log |-> log, cbs |-> _log_callbacks,
   q |-> queue[c], frames |-> frames[c], deliv |-> delivered[c],
   agent |-> agent_task[c], cid |-> callback_id[c],
   pc |-> pc[c], wait |-> wait[c], events |-> events[c],
   unreg |-> unregAt[c], ended |-> ended[c]]

\* The loop runs the generator of connection c up to its next suspension.
\* now: the consumer's send of the yielded frame returns without suspending,
\* so the generator is resumed before any other handle runs.
\* hist: whether the history variables record the step.
DriverStep(c, hist) ==
  /\ ready # <<>> /\ Head(ready) = Drv(c)
  /\ \E r \in IF pc[c] = "start" /\ wait[c] # "exit"
                 THEN {Start(View(c), c, ctorOk, runOk) :
                         ctorOk \in BOOLEAN, runOk \in BOOLEAN}
                 ELSE {Resume(View(c), c)} :
     \E now \in IF r.wait = "send" THEN BOOLEAN ELSE {FALSE} :
           /\ ready' = IF now THEN <<Drv(c)>> \o r.rdy ELSE r.rdy
           /\ wait' = [wait EXCEPT ![c] = IF now THEN "send_ok" ELSE r.wait]
           /\ pc' = [pc EXCEPT ![c] = r.pc]
           /\ log' = IF hist THEN r.log ELSE log
           /\ _log_callbacks' = r.cbs
           /\ queue' = [queue EXCEPT ![c] = r.q]
           /\ frames' = IF hist THEN [frames EXCEPT ![c] = r.frames] ELSE frames
           /\ delivered' = IF hist THEN [delivered EXCEPT ![c] = r.deliv]
                                   ELSE delivered
           /\ agent_task' = [agent_task EXCEPT ![c] = r.agent]
           /\ callback_id' = [callback_id EXCEPT ![c] = r.cid]
           /\ events' = IF hist THEN [events EXCEPT ![c] = r.events] ELSE events
           /\ unregAt' = IF hist THEN [unregAt EXCEPT ![c] = r.unreg] ELSE unregAt
           /\ ended' = [ended EXCEPT ![c] = r.ended]
  /\ UNCHANGED <<lastOp, dispatch, prompt, emitted>>

StepDriver(c) == DriverStep(c, TRUE)

\* The loop runs a task created by log_callback: queue.put(message) on the
\* unbounded queue puts at once and wakes the getter, if one waits.
StepPut(c) ==
  /\ ready # <<>> /\ Head(ready).k = "put" /\ Head(ready).c = c
  /\ queue' = [queue EXCEPT ![c] = QueuePut(@, Head(ready).m)]
  /\ IF pc[c] = "poll" /\ wait[c] = "getter"
       THEN /\ wait' = [wait EXCEPT ![c] = "woken"]
            /\ ready' = Append(Tail(ready), Drv(c))
       ELSE /\ wait' = wait
            /\ ready' = Tail(ready)
  /\ UNCHANGED <<_log_callbacks, lastOp, dispatch, pc, prompt, callback_id, agent_task,
                 emitted, frames, delivered, log, events, unregAt, ended>>

\* What a task other than a generator sees: the globals.
LoopView == [rdy |-> Tail(ready), log |-> log, cbs |-> _log_callbacks]

\* The messages on their way to the queue of connection d.
Backlog(d) ==
  Len(queue[d]) + Cardinality({i \in 1..Len(ready) :
                                 ready[i].k = "put" /\ ready[i].c = d})

\* The loop runs one step of agent.run(prompt): it logs a line or not, then
\* awaits something, returns or raises.
\* hist: whether the history variables record the step; if they do, a run
\* logs MaxEmit lines at most, and if not it logs as long as no registered
\* observer's queue has a backlog of MaxBacklog.
AgentStep(c, hist) ==
  /\ ready # <<>> /\ Head(ready) = Agent(c)
  /\ \E logs \in BOOLEAN, then \in {"waiting", "done", "raised"} :
       /\ logs => IF hist THEN emitted[c] < MaxEmit
                          ELSE \A d \in Conns :
                                 (\E i \in 1..Len(_log_callbacks) :
                                    _log_callbacks[i] = Callback(d))
                                   => Backlog(d) < MaxBacklog
       /\ \E s1 \in {IF logs THEN LoggerCall(LoopView, Msg(c, AgentLine(emitted[c] + 1)))
                               ELSE LoopView} :
          LET wake == then # "waiting" /\ pc[c] = "await71"
          IN  /\ ready' = IF wake THEN Append(s1.rdy, Drv(c)) ELSE s1.rdy
              /\ wait' = IF wake THEN [wait EXCEPT ![c] = "task_done"] ELSE wait
              /\ log' = IF hist THEN s1.log ELSE log
              /\ emitted' = [emitted EXCEPT ![c] = IF logs /\ hist THEN @ + 1 ELSE @]
              /\ agent_task' = [agent_task EXCEPT ![c] = then]
  /\ UNCHANGED <<_log_callbacks, lastOp, dispatch, pc, prompt, callback_id, queue, frames,
                 delivered, events, unregAt, ended>>

StepAgent(c) == AgentStep(c, TRUE)

\* What the agent run awaited has completed.
AgentWake(c) ==
  /\ agent_task[c] = "waiting"
  /\ agent_task' = [agent_task EXCEPT ![c] = "ready"]
  /\ ready' = Append(ready, Agent(c))
  /\ UNCHANGED <<_log_callbacks, lastOp, dispatch, pc, wait, prompt, callback_id, queue,
                 emitted, frames, delivered, log, events, unregAt, ended>>

\* The consumer's send of the frame has completed: it asks for the next one.
SendDone(c) ==
  /\ pc[c] \in Yields /\ wait[c] = "send"
  /\ wait' = [wait EXCEPT ![c] = "send_ok"]
  /\ ready' = Append(ready, Drv(c))
  /\ UNCHANGED <<_log_callbacks, lastOp, dispatch, pc, prompt, callback_id, queue,
                 agent_task, emitted, frames, delivered, log, events, unregAt,
                 ended>>

\* The 0.1 s timeout of wait_for expires while the getter is pending.
Timer(c) ==
  /\ pc[c] = "poll" /\ wait[c] = "getter"
  /\ wait' = [wait EXCEPT ![c] = "timeout"]
  /\ ready' = Append(ready, Drv(c))
  /\ UNCHANGED <<_log_callbacks, lastOp, dispatch, pc, prompt, callback_id, queue,
                 agent_task, emitted, frames, delivered, log, events, unregAt,
                 ended>>

\* The client disconnects: the response task is cancelled.  Suspended at the
\* poll the generator gets CancelledError; suspended at a yield it is closed
\* by the loop's asynchronous-generator finalizer; not started, it never runs.
Disconnect(c) ==
  /\ pc[c] \in Yields \cup {"poll", "start"}
  /\ wait[c] # "exit"
  /\ wait' = [wait EXCEPT ![c] = "exit"]
  /\ ready' = IF wait[c] \in {"send", "getter"} THEN Append(ready, Drv(c)) ELSE ready
  /\ UNCHANGED <<_log_callbacks, lastOp, dispatch, pc, prompt, callback_id, queue,
                 agent_task, emitted, frames, delivered, log, events, unregAt,
                 ended>>

Next ==
  \E c \in Conns :
    \/ Request(c)
    \/ StepDriver(c)
    \/ StepPut(c)
    \/ StepAgent(c)
    \/ AgentWake(c)
    \/ SendDone(c)
    \/ Timer(c)
    \/ Disconnect(c)

Spec == Init /\ [][Next]_vars

\* ------------------------------------------------------------- unbounded runs
\* The same program with agent runs that log any number of lines and
\* clients that all keep reading.  The history variables are not written,
\* so that the state stays finite.
LiveDriver(c) == DriverStep(c, FALSE)
LiveAgent(c) == AgentStep(c, FALSE)

LiveNext ==
  \E c \in Conns :
    \/ Request(c)
    \/ LiveDriver(c)
    \/ StepPut(c)
    \/ LiveAgent(c)
    \/ AgentWake(c)
    \/ SendDone(c)
    \/ Timer(c)

\* The event loop runs the handle at the head of its ready list; the 0.1 s
\* timer of a pending poll expires; a frame handed to a client that keeps
\* reading is sent.
Fairness ==
  /\ WF_vars(\E c \in Conns : LiveDriver(c) \/ StepPut(c) \/ LiveAgent(c))
  /\ \A c \in Conns : WF_vars(Timer(c))
  /\ \A c \in Conns : WF_vars(SendDone(c))

LiveSpec == Init /\ [][LiveNext]_vars /\ Fairness

\* ------------------------------------------------------------- registry alone
\* The three functions of app/logger.py called in any order with any
\* arguments; a dispatch is made on the loop's thread or on a thread with no
\* running loop (where log_callback's create_task raises RuntimeError).
Handles == (0 - MaxSlots - 1)..(MaxSlots + 1)

RegAdd(c) ==
  /\ Len(_log_callbacks) < MaxSlots
  /\ LET r == add_log_callback(_log_callbacks, Callback(c))
     IN  /\ _log_callbacks' = r.list
         /\ lastOp' = [op |-> "add", arg |-> r.id, before |-> _log_callbacks,
                       invoked |-> <<>>, raised |-> FALSE, onLoop |-> TRUE]
  /\ UNCHANGED <<dispatch, ready, pc, wait, prompt, callback_id, queue, agent_task,
                 emitted, frames, delivered, log, events, unregAt, ended>>

RegRemove(h) ==
  /\ LET r == remove_log_callback(_log_callbacks, h)
     IN  /\ _log_callbacks' = r.list
         /\ lastOp' = [op |-> "remove", arg |-> h, before |-> _log_callbacks,
                       invoked |-> <<>>, raised |-> r.raised, onLoop |-> TRUE]
  /\ UNCHANGED <<dispatch, ready, pc, wait, prompt, callback_id, queue, agent_task,
                 emitted, frames, delivered, log, events, unregAt, ended>>

RegDispatch(onLoop) ==
  /\ LET r == _intercept_message(_log_callbacks, onLoop)
     IN  lastOp' = [op |-> "dispatch", arg |-> 0, before |-> _log_callbacks,
                    invoked |-> r.invoked, raised |-> r.raised,
                    onLoop |-> onLoop]
  /\ UNCHANGED <<_log_callbacks, dispatch, ready, pc, wait, prompt, callback_id, queue,
                 agent_task, emitted, frames, delivered, log, events, unregAt,
                 ended>>

RegNext ==
  \/ \E c \in Conns : RegAdd(c)
  \/ \E h \in Handles : RegRemove(h)
  \/ \E onLoop \in BOOLEAN : RegDispatch(onLoop)

RegSpec == Init /\ [][RegNext]_vars

\* ------------------------------------------------------------- a pass in steps
\* _intercept_message run one slot at a time, so that registrations and
\* removals (made by a callback of the pass, or by another thread between two
\* iterations) fall inside the pass.

\* Mutant: a list iterator that advances by two.
ListIterNextSkip(l, i) ==
  IF i < Len(l) THEN [stop |-> FALSE, item |-> l[i + 1], i |-> i + 2]
                ELSE [stop |-> TRUE, item |-> None, i |-> i]

\* next() of Python's list iterator at index i: it reads the list as it is
\* now, and stops once the index has reached the list's current length.
ListIterNext(l, i) ==
  IF i < Len(l) THEN [stop |-> FALSE, item |-> l[i + 1], i |-> i + 1]
                ELSE [stop |-> TRUE, item |-> None, i |-> i]

\* for callback in _log_callbacks: the iterator is created.
PassStart ==
  /\ dispatch.stop
  /\ dispatch' = [i |-> 0, stop |-> FALSE, start |-> _log_callbacks,
                  end |-> <<>>, invoked |-> <<>>, raised |-> FALSE]
  /\ UNCHANGED <<_log_callbacks, lastOp, ready, pc, wait, prompt, callback_id,
                 queue, agent_task, emitted, frames, delivered, log, events,
                 unregAt, ended>>

\* One iteration: fetch the next slot; if callback: callback(message).
PassStep ==
  /\ ~dispatch.stop
  /\ LET n == ListIterNext(_log_callbacks, dispatch.i)
     IN  dispatch' =
           IF n.stop
             THEN [dispatch EXCEPT !.stop = TRUE, !.end = _log_callbacks]
           ELSE IF ~Truthy(n.item)
             THEN [dispatch EXCEPT !.i = n.i]
           ELSE IF CallRaises(n.item, TRUE)
             THEN [dispatch EXCEPT !.i = n.i, !.stop = TRUE, !.raised = TRUE,
                                   !.end = _log_callbacks,
                                   !.invoked = Append(@, dispatch.i)]
           ELSE [dispatch EXCEPT !.i = n.i, !.invoked = Append(@, dispatch.i)]
  /\ UNCHANGED <<_log_callbacks, lastOp, ready, pc, wait, prompt, callback_id,
                 queue, agent_task, emitted, frames, delivered, log, events,
                 unregAt, ended>>

PassNext ==
  \/ \E c \in Conns : RegAdd(c)
  \/ \E h \in Handles : RegRemove(h)
  \/ PassStart
  \/ PassStep

PassSpec == Init /\ [][PassNext]_vars

\* ------------------------------------------------------------- helpers
Range(s) == {s[i] : i \in 1..Len(s)}
\* The handles (0-based) of the slots holding a callback.
ActiveSlots(cbs) == {i \in 0..(Len(cbs) - 1) : cbs[i + 1] # None}
Count(s, x) == Cardinality({i \in 1..Len(s) : s[i] = x})
\* Position of a message in the emission history (0 if never emitted).
Pos(m) == IF m \in Range(log) THEN CHOOSE i \in 1..Len(log) : log[i] = m ELSE 0
Last(s) == s[Len(s)]

\* ------------------------------------------------------------- claims
\* C5: when an active callback raises during a dispatch pass, every other
\* active callback is still invoked with the message and the exception does
\* not leave _intercept_message.
C5_RaisingCallbackContained ==
  (lastOp.op = "dispatch" /\ ~lastOp.onLoop /\ ActiveSlots(lastOp.before) # {})
    => /\ Range(lastOp.invoked) = ActiveSlots(lastOp.before)
       /\ ~lastOp.raised

\* C6: remove_log_callback(h) raises for no integer h, changes no slot but
\* the one h names, and a second call with the same h changes nothing.
C6_RemoveIsSafe ==
  lastOp.op = "remove" =>
    /\ ~lastOp.raised
    /\ Len(_log_callbacks) = Len(lastOp.before)
    /\ \A i \in 0..(Len(_log_callbacks) - 1) :
         i # lastOp.arg => _log_callbacks[i + 1] = lastOp.before[i + 1]
    /\ remove_log_callback(_log_callbacks, lastOp.arg)
         = [list |-> _log_callbacks, raised |-> FALSE]

\* C6 witness: remove_log_callback(-1) was called while the last slot held a
\* callback (where an unguarded list assignment would clear that slot).
C6_Witness ==
  /\ lastOp.op = "remove" /\ lastOp.arg = -1
  /\ Len(lastOp.before) >= 2 /\ Last(lastOp.before) # None

\* C7: a dispatch pass in which no callback raises invokes each registered,
\* not removed callback exactly once and no removed slot.
C7_FanOutComplete ==
  (lastOp.op = "dispatch" /\ lastOp.onLoop) =>
    /\ ~lastOp.raised
    /\ Range(lastOp.invoked) = ActiveSlots(lastOp.before)
    /\ Len(lastOp.invoked) = Cardinality(ActiveSlots(lastOp.before))

\* C7 witness: a pass over two active slots and a removed one.
C7_Witness ==
  /\ lastOp.op = "dispatch" /\ lastOp.onLoop
  /\ Cardinality(ActiveSlots(lastOp.before)) = 2
  /\ None \in Range(lastOp.before)
  /\ Len(lastOp.invoked) = 2

CleanupCount(c) == Count(events[c], "cleanup")
\* Frames whose text starts like error_msg.
ErrorFrames(c) ==
  Cardinality({i \in 1..Len(frames[c]) : frames[c][i][2] = "An error occurred: "})
\* The puts scheduled for connection c's queue and not yet run.
PendingPuts(c) == {h.m : h \in {x \in Range(ready) : x.k = "put" /\ x.c = c}}

\* C1: once a stream whose generator entered its try block has ended
\* (completion, caught exception, empty prompt or client disconnect),
\* agent.cleanup() has been invoked exactly once; it is never invoked twice.
C1_CleanupExactlyOnce ==
  \A c \in Conns :
    /\ CleanupCount(c) <= 1
    /\ (pc[c] = "closed" /\ ended[c] \in {"completed", "error", "empty", "disconnect"})
         => CleanupCount(c) = 1

\* C1 witness: a stream ended by a disconnect while its agent task still ran.
C1_Witness ==
  \E c \in Conns :
    /\ pc[c] = "closed" /\ ended[c] = "disconnect"
    /\ agent_task[c] \in {"ready", "waiting"}
    /\ CleanupCount(c) = 1

\* C2: if agent.run raises, the client gets exactly one 'An error occurred'
\* frame and no 'Request processing completed.' frame, and cleanup() is
\* invoked.
C2_AgentFailureSurfaced ==
  \A c \in Conns :
    (/\ pc[c] = "closed"
     /\ \/ ended[c] = "error"
        \/ ended[c] = "completed" /\ agent_task[c] = "raised")
      => /\ ErrorFrames(c) = 1
         /\ Count(frames[c], Frame(TextCompleted)) = 0
         /\ CleanupCount(c) = 1

\* C3: when the driver yields the terminal frame after its agent task
\* returned, every line that task logged has been delivered as a frame.
C3_NoMessageLost ==
  \A c \in Conns :
    ((pc[c] = "y75" \/ ended[c] = "completed") /\ agent_task[c] = "done")
      => \A i \in 1..emitted[c] : Msg(c, AgentLine(i)) \in Range(delivered[c])

\* C4: the log messages delivered on a connection are in emission order with
\* none delivered twice, and the frames sent are exactly their renderings,
\* followed by at most one frame of the driver's own.
C4_OrderedNoDuplicates ==
  \A c \in Conns :
    /\ \A i \in 1..Len(delivered[c]) : Pos(delivered[c][i]) > 0
    /\ \A i, j \in 1..Len(delivered[c]) :
         i < j => Pos(delivered[c][i]) < Pos(delivered[c][j])
    /\ Len(delivered[c]) <= Len(frames[c])
    /\ Len(frames[c]) <= Len(delivered[c]) + 1
    /\ \A i \in 1..Len(delivered[c]) : frames[c][i] = Frame(delivered[c][i].text)

\* C4 witness: a connection delivered its agent's line after another message.
C4_Witness ==
  \E c \in Conns :
    /\ Len(delivered[c]) >= 2
    /\ Last(delivered[c]) = Msg(c, AgentLine(1))

\* C8: after a connection's observer is removed, no message emitted later
\* is put, or scheduled to be put, into that connection's queue.
C8_NoEnqueueAfterUnregister ==
  \A c \in Conns :
    unregAt[c] >= 0 =>
      \A m \in Range(queue[c]) \cup PendingPuts(c) : Pos(m) <= unregAt[c]

\* C8 witness: the connection's own agent task logged after the removal.
C8_Witness ==
  \E c \in Conns :
    /\ unregAt[c] >= 0
    /\ \E i \in 1..Len(log) : i > unregAt[c] /\ log[i] = Msg(c, AgentLine(1))

\* C9: on a connection every frame precedes the removal of the observer,
\* which precedes cleanup(); once removed the slot is empty and no frame
\* is added.
C9_EndOfStreamOrder ==
  \A c \in Conns :
    /\ Len(frames[c]) = Count(events[c], "frame")
    /\ \A i, j \in 1..Len(events[c]) :
         i < j => /\ ~(events[c][i] # "frame" /\ events[c][j] = "frame")
                  /\ ~(events[c][i] = "cleanup" /\ events[c][j] = "unregister")
    /\ CleanupCount(c) > 0 => Count(events[c], "unregister") > 0
    /\ Count(events[c], "unregister") > 0
         => _log_callbacks[callback_id[c] + 1] = None

\* C9 witness: a completed stream: frames, then removal, then cleanup.
C9_Witness ==
  \E c \in Conns :
    /\ ended[c] = "completed"
    /\ Len(events[c]) >= 4
    /\ SubSeq(events[c], Len(events[c]) - 2, Len(events[c]))
         = <<"frame", "unregister", "cleanup">>

\* C10 as stated: a stream that ends without error or disconnect (no agent
\* run raised) holds the 'Request processing completed.' frame exactly once,
\* as its last frame.
C10_TerminalFrameOnce ==
  \A c \in Conns :
    (ended[c] = "completed" /\ \A d \in Conns : agent_task[d] # "raised") =>
      /\ frames[c] # <<>> /\ Last(frames[c]) = Frame(TextCompleted)
      /\ Count(frames[c], Frame(TextCompleted)) = 1

\* C10 amended: the driver's terminal frame is the last frame, the copy the
\* driver itself logged is never delivered, and any earlier frame with that
\* text renders the copy another connection's driver logged.
C10_TerminalFrameLast ==
  \A c \in Conns :
    (pc[c] = "y75" \/ ended[c] = "completed") =>
      /\ frames[c] # <<>> /\ Last(frames[c]) = Frame(TextCompleted)
      /\ \A i \in 1..Len(delivered[c]) :
           delivered[c][i].text = TextCompleted => delivered[c][i].src # c
      /\ Count(frames[c], Frame(TextCompleted))
           = 1 + Cardinality({i \in 1..Len(delivered[c]) :
                                delivered[c][i].text = TextCompleted})

\* C10 witness: a completed stream that also relayed another connection's
\* copy of the text.
C10_Witness ==
  \E c \in Conns :
    /\ ended[c] = "completed"
    /\ Count(frames[c], Frame(TextCompleted)) = 2

\* A prompt with no character other than white space.
Blank(p) == \A i \in 1..Len(p) : IsSpace(p[i])

\* C11: on a connection whose prompt is empty or only whitespace, no agent
\* task is launched and agent.run never runs, nothing is dequeued, and once
\* the generator has yielded, the stream holds exactly the one frame
\* 'data: Empty prompt provided.' (the warning logged with that text is not
\* relayed on this connection).
C11_EmptyPromptSingleFrame ==
  \A c \in Conns :
    (pc[c] # "idle" /\ Blank(prompt[c])) =>
      /\ agent_task[c] = "none" /\ emitted[c] = 0
      /\ Agent(c) \notin Range(ready)
      /\ delivered[c] = <<>>
      /\ Len(frames[c]) <= 1
      /\ (pc[c] = "y49" \/ ended[c] \in {"empty", "disconnect"})
           => frames[c] = <<Frame(TextEmpty)>>

\* C11 witness: a whitespace-only prompt whose stream has ended while the
\* driver's own warning sits in its queue, never read.
C11_Witness ==
  \E c \in Conns :
    /\ prompt[c] = <<" ", " ">> /\ ended[c] = "empty"
    /\ Msg(c, TextEmpty) \in Range(queue[c])
    /\ frames[c] = <<Frame(TextEmpty)>>

\* C12: on the empty-prompt path cleanup() is not invoked.
C12_EmptyPromptNoCleanup ==
  \A c \in Conns :
    (pc[c] = "closed" /\ ended[c] = "empty") => CleanupCount(c) = 0

\* C13: once a connection's stream has ended, the observer it registered is
\* no longer in the registry, whichever way the stream ended.
C13_ObserverAlwaysUnregistered ==
  \A c \in Conns :
    (pc[c] = "closed" /\ callback_id[c] >= 0)
      => _log_callbacks[callback_id[c] + 1] = None

\* C15: from the moment the client of a started stream is gone, the driver
\* is scheduled (it waits for nothing, the agent task included), it adds no
\* frame and takes nothing from its queue, and its next step removes the
\* observer and invokes cleanup(), whatever the state of the agent task.
C15_DisconnectStopsDriver ==
  [][\A c \in Conns :
       (wait[c] = "exit" /\ pc[c] \in Yields \cup {"poll"}) =>
         /\ Drv(c) \in Range(ready)
         /\ frames'[c] = frames[c] /\ delivered'[c] = delivered[c]
         /\ Len(queue'[c]) >= Len(queue[c])
         /\ pc'[c] \in {pc[c], "closed"}
         /\ pc'[c] = pc[c] => (wait'[c] = "exit" /\ events'[c] = events[c])
         /\ pc'[c] = "closed" =>
              /\ events'[c] = events[c] \o <<"unregister", "cleanup">>
              /\ ended'[c] = "disconnect"
              /\ agent_task'[c] = agent_task[c]]_vars

\* C15 witness: a stream closed by a disconnect while its agent task was
\* still running and messages were left in its queue.
C15_Witness ==
  \E c \in Conns :
    /\ pc[c] = "closed" /\ ended[c] = "disconnect"
    /\ agent_task[c] \in {"ready", "waiting"}
    /\ queue[c] # <<>> /\ frames[c] # <<>>
    /\ Last(events[c]) = "cleanup"

\* A connection whose generator has run and not finished.
StreamActive(c) == pc[c] \notin {"idle", "start", "closed"}

\* C16: each connection with an active stream owns exactly one Active slot,
\* the one its handle names; no two such connections share a handle; and the
\* Active slots are as many as the active connections.
C16_OneSlotPerActiveConnection ==
  /\ \A c \in Conns :
       StreamActive(c) =>
         /\ {i \in ActiveSlots(_log_callbacks) : _log_callbacks[i + 1] = Callback(c)}
              = {callback_id[c]}
  /\ \A c, d \in Conns :
       (StreamActive(c) /\ StreamActive(d) /\ c # d)
         => callback_id[c] # callback_id[d]
  /\ Cardinality(ActiveSlots(_log_callbacks))
       = Cardinality({c \in Conns : StreamActive(c)})

\* C17: add_log_callback returns a handle that names no slot issued before
\* (so none that is still Active) and whose slot holds the new callback; no
\* call shrinks the slot list; and after any call each slot that existed
\* holds what it held or is empty, so a handle never comes to name another
\* observer's callback.
C17_HandlesStable ==
  /\ lastOp.op = "add" =>
       /\ lastOp.arg = Len(lastOp.before)
       /\ lastOp.arg \notin ActiveSlots(lastOp.before)
       /\ lastOp.arg \in ActiveSlots(_log_callbacks)
  /\ lastOp.op # "none" =>
       /\ Len(_log_callbacks) >= Len(lastOp.before)
       /\ \A i \in 1..Len(lastOp.before) :
            _log_callbacks[i] \in {lastOp.before[i], None}
  /\ lastOp.op = "remove" =>
       \A i \in ActiveSlots(lastOp.before) :
         i # lastOp.arg => _log_callbacks[i + 1] = lastOp.before[i + 1]

\* C17 witness: a registration made while an earlier slot is empty and a
\* later one Active (a recycling registry would hand the empty slot out).
C17_Witness ==
  /\ lastOp.op = "add"
  /\ Len(lastOp.before) >= 2
  /\ lastOp.before[1] = None /\ Last(lastOp.before) # None
  /\ lastOp.arg = Len(lastOp.before)

\* C18: the driver is never suspended at `await agent_task` (line 71); it
\* is at the final yield only with its agent task done; and the step in
\* which it leaves the polling loop for the final yield finds the task done
\* and the queue empty.
C18_LoopExitsOnlyWhenDone ==
  /\ [](\A c \in Conns :
          /\ pc[c] # "await71"
          /\ pc[c] = "y75" => TaskDone(agent_task[c]))
  /\ [][\A c \in Conns :
          (pc[c] # "y75" /\ pc'[c] = "y75") =>
            /\ TaskDone(agent_task[c]) /\ agent_task'[c] = agent_task[c]
            /\ queue[c] = <<>> /\ queue'[c] = <<>>]_vars

\* C18 witness: the driver at the final yield after a loop that relayed at
\* least one message, its task done and its queue empty.
C18_Witness ==
  \E c \in Conns :
    /\ pc[c] = "y75" /\ wait[c] = "send"
    /\ agent_task[c] = "done" /\ queue[c] = <<>>
    /\ Len(delivered[c]) >= 1

\* C19: a dispatch pass during which slots are removed or added calls no
\* slot twice and, once it has ended, has raised nothing and has called
\* exactly once every slot that held a callback from its start to its end.
C19_PassToleratesMutation ==
  /\ \A k \in Range(dispatch.invoked) : Count(dispatch.invoked, k) = 1
  /\ ~dispatch.raised
  /\ (dispatch.stop /\ dispatch.i >= 0) =>
       \A k \in ActiveSlots(dispatch.start) \cap ActiveSlots(dispatch.end) :
         Count(dispatch.invoked, k) = 1

\* C19 witness: a pass that ended after a slot it had not yet reached was
\* removed and a slot was added, and that called a slot which stayed.
C19_Witness ==
  /\ dispatch.stop /\ dispatch.i >= 0
  /\ Len(dispatch.end) > Len(dispatch.start)
  /\ \E k \in ActiveSlots(dispatch.start) :
       dispatch.end[k + 1] = None /\ k \notin Range(dispatch.invoked)
  /\ \E k \in ActiveSlots(dispatch.start) \cap ActiveSlots(dispatch.end) :
       k \in Range(dispatch.invoked)

\* Length of the emission history when connection c registered its observer:
\* the driver's first log call follows the registration at once (-1 if the
\* driver has made none).
RegAt(c) ==
  IF Msg(c, TextEmpty) \in Range(log) THEN Pos(Msg(c, TextEmpty)) - 1
  ELSE IF Msg(c, TextProcessing) \in Range(log)
    THEN Pos(Msg(c, TextProcessing)) - 1
  ELSE -1
\* How many times message m has been scheduled for connection c's queue:
\* puts not yet run, items in the queue, items taken from it.
Scheduled(c, m) ==
  Count(ready, PutTask(c, m)) + Count(queue[c], m) + Count(delivered[c], m)

\* C20: every message emitted by any connection's driver or agent while the
\* observer of connection c is registered is scheduled for c's queue exactly
\* once, and a message emitted outside that time is not scheduled for it.
C20_NoPerConnectionFiltering ==
  \A c \in Conns : \A at \in {RegAt(c)} :
    \A i \in 1..Len(log) : \A n \in {Scheduled(c, log[i])} :
      /\ n <= 1
      /\ at >= 0 =>
           n = IF i > at /\ (unregAt[c] = -1 \/ i <= unregAt[c]) THEN 1 ELSE 0

\* C20 witness: two connections that each relayed the line logged by the
\* other one's agent as well as its own agent's line.
C20_Witness ==
  \E c, d \in Conns :
    /\ c # d
    /\ {Msg(c, AgentLine(1)), Msg(d, AgentLine(1))} \subseteq Range(delivered[c])
    /\ {Msg(c, AgentLine(1)), Msg(d, AgentLine(1))} \subseteq Range(delivered[d])

\* C14: on a connection whose agent task has completed (and whose client
\* keeps reading), the driver eventually ends the stream: it yields the
\* terminal frame, removes its observer and invokes cleanup(), whatever the
\* other connections log in the meantime.
C14_CompletedStreamTerminates ==
  \A c \in Conns :
    (TaskDone(agent_task[c]) /\ StreamActive(c))
      ~> (pc[c] = "closed" /\ ended[c] = "completed")

====
